---- MODULE Spec2Model ----
(***************************************************************************)
(* Model of the zigQuant data scripts: the Binance downloader              *)
(* (download_all_timeframes.py), the bulk converters (convert_all_data.py, *)
(* convert_binance_to_zigquant.py), the streaming 1s converter             *)
(* (convert_1s_streaming.py) and the 1s timestamp fixer                    *)
(* (fix_1s_timestamps.py).                                                 *)
(*                                                                         *)
(* Text is a sequence of one-character strings. A CSV line is text without *)
(* its line terminator; an archive is the sequence of lines of the CSV     *)
(* file it holds. Python integers are unbounded, so int(text) is kept as   *)
(* the digit sequence without leading zeros and compared digit by digit.   *)
(***************************************************************************)
EXTENDS Integers, Sequences, FiniteSets, TLC

VARIABLES
    prog,               \* which script runs: "stream", "fix", "bulk", "binance", "fetch"
    pc,                 \* position of the running script
    total_files,        \* number of archives in the input directory
    zip_files,          \* the archives visited so far, each with the lines read from it
    errors,             \* the archives for which an error line was printed
    i,                  \* archives finished so far (loop index)
    outfile,            \* lines of the 1s series file, header included
    last_timestamp,     \* <<>> for None, <<text>> otherwise
    total_candles,
    duplicates_skipped,
    file_candles,
    file_duplicates,
    fixed_out,          \* lines the fixer has written to its output file
    total_lines,
    fixed_lines,
    all_rows,           \* convert_timeframe: the rows collected, 6 fields each
    processed_files,
    unique_rows,
    output_file,        \* lines of the file a bulk converter wrote, header included
    result,             \* what convert_timeframe returned
    all_lines,          \* convert_binance_to_zigquant: the lines collected
    ret,                \* what convert_binance_to_zigquant returned
    run,                \* which run of the script this is (downloader, fixer)
    idx,                \* months of the run handled so far
    disk,               \* the file at each month's save_path
    attempt,            \* download_file: the loop variable
    events,             \* network attempts and sleeps of the latest download_file call
    dl_result,          \* what download_file returned
    downloaded,
    skipped,
    failed,
    report,             \* per download_file call of this run: how it ended, what came of it
    net_count,          \* network attempts made in this run
    prev                \* counts and disk at the end of the previous run

streamVars == <<i, outfile, last_timestamp, total_candles, duplicates_skipped,
                file_candles, file_duplicates, fixed_out, total_lines, fixed_lines>>
bulkVars == <<all_rows, processed_files, unique_rows, output_file, result,
              all_lines, ret>>

fetchVars == <<run, idx, disk, attempt, events, dl_result, downloaded, skipped,
               failed, report, net_count, prev>>

vars == <<prog, pc, total_files, zip_files, errors, streamVars, bulkVars, fetchVars>>

(***************************************************************************)
(* Bounds of the model.                                                    *)
(***************************************************************************)
MaxArchives == 2
MaxRows == 3
MaxFiles == 2
MaxRuns == 2

(***************************************************************************)
(* Program constants.                                                      *)
(***************************************************************************)
MinFields == 6
MicroWidth == 16
MicroSuffix == 3
max_retries == 3

(***************************************************************************)
(* Text helpers: str.split, str.join, str.strip, int(). A text is the      *)
(* sequence of its characters; the characters are those of ASCII that a    *)
(* text file holds (the blanks and the printable ones).                    *)
(***************************************************************************)
Digit == {"0", "1", "2", "3", "4", "5", "6", "7", "8", "9"}

DigitVal(c) ==
    CASE c = "0" -> 0 [] c = "1" -> 1 [] c = "2" -> 2 [] c = "3" -> 3
      [] c = "4" -> 4 [] c = "5" -> 5 [] c = "6" -> 6 [] c = "7" -> 7
      [] c = "8" -> 8 [] c = "9" -> 9

\* the characters str.strip() removes: space, tab, line feed, vertical tab,
\* form feed, carriage return and the separators 1C to 1F
IsSpace(c) == c \in {" ", "\t", "\n", "", "\f", "\r", "", "", "", ""}

\* the blanks int() passes over at both ends of its text
IsIntSpace(c) == c \in {" ", "\t", "\n", "", "\f", "\r"}

\* the characters in the order of their code points, for str < str (the
\* grave accent, which no TLA+ string holds, is left out)
CodeOrder ==
    <<"\t", "\n", "", "\f", "\r", "", "", "", "", " ", "!", "\"", "#",
      "$", "%", "&", "'", "(", ")", "*", "+", ",", "-", ".", "/", "0", "1",
      "2", "3", "4", "5", "6", "7", "8", "9", ":", ";", "<", "=", ">", "?",
      "@", "A", "B", "C", "D", "E", "F", "G", "H", "I", "J", "K", "L", "M",
      "N", "O", "P", "Q", "R", "S", "T", "U", "V", "W", "X", "Y", "Z", "[",
      "\\", "]", "^", "_", "a", "b", "c", "d", "e", "f", "g", "h", "i", "j",
      "k", "l", "m", "n", "o", "p", "q", "r", "s", "t", "u", "v", "w", "x",
      "y", "z", "{", "|", "}", "~">>

Ord(c) == CHOOSE k \in 1..Len(CodeOrder) : CodeOrder[k] = c

\* str.split(sep): the text before the first separator, then the parts of
\* the text behind it
RECURSIVE Split(_, _)
Split(s, sep) ==
    IF \A k \in 1..Len(s) : s[k] # sep THEN <<s>>
    ELSE LET p == CHOOSE k \in 1..Len(s) :
                     s[k] = sep /\ \A j \in 1..(k - 1) : s[j] # sep
         IN  <<SubSeq(s, 1, p - 1)>> \o Split(SubSeq(s, p + 1, Len(s)), sep)

RECURSIVE Join(_, _)
Join(parts, sep) ==
    IF parts = <<>> THEN <<>>
    ELSE IF Len(parts) = 1 THEN Head(parts)
    ELSE Head(parts) \o <<sep>> \o Join(Tail(parts), sep)

RECURSIVE LStrip(_)
LStrip(s) ==
    IF s # <<>> /\ IsSpace(Head(s)) THEN LStrip(Tail(s)) ELSE s

RECURSIVE RStrip(_)
RStrip(s) ==
    IF s # <<>> /\ IsSpace(s[Len(s)])
    THEN RStrip(SubSeq(s, 1, Len(s) - 1)) ELSE s

Strip(s) == RStrip(LStrip(s))

\* the text of int() without the blanks around it
RECURSIVE IntTrimLeft(_)
IntTrimLeft(s) ==
    IF s # <<>> /\ IsIntSpace(Head(s)) THEN IntTrimLeft(Tail(s)) ELSE s

RECURSIVE IntTrimRight(_)
IntTrimRight(s) ==
    IF s # <<>> /\ IsIntSpace(s[Len(s)])
    THEN IntTrimRight(SubSeq(s, 1, Len(s) - 1)) ELSE s

IntTrim(s) == IntTrimRight(IntTrimLeft(s))

\* the digits of the text of int(): what follows an optional sign
Unsigned(t) == IF t # <<>> /\ Head(t) \in {"+", "-"} THEN Tail(t) ELSE t

\* the longest decimal text int() converts: sys.get_int_max_str_digits() of
\* Python 3.11 and later
MaxStrDigits == 4300

\* the texts int() takes: blanks around, an optional sign, then decimal digits
\* with single underscores between them, at most MaxStrDigits digits (leading
\* zeros counted, sign and underscores not); on any other text int() raises
IsDecimal(s) ==
    LET u == Unsigned(IntTrim(s))
    IN  /\ u # <<>>
        /\ \A k \in 1..Len(u) : u[k] \in Digit \/ u[k] = "_"
        /\ u[1] # "_" /\ u[Len(u)] # "_"
        /\ \A k \in 1..(Len(u) - 1) : ~(u[k] = "_" /\ u[k + 1] = "_")
        /\ \/ Len(u) <= MaxStrDigits
           \/ Len(SelectSeq(u, LAMBDA c : c # "_")) <= MaxStrDigits

RECURSIVE DropZeros(_)
DropZeros(s) ==
    IF Len(s) > 1 /\ Head(s) = "0" THEN DropZeros(Tail(s)) ELSE s

\* int(text): the value as its canonical digit sequence, behind a minus sign
\* when it is below zero
ParseInt(s) ==
    LET t == IntTrim(s)
        d == DropZeros(SelectSeq(Unsigned(t), LAMBDA c : c # "_"))
    IN  IF t # <<>> /\ Head(t) = "-" /\ d # <<"0">> THEN <<"-">> \o d ELSE d

RECURSIVE LexLess(_, _)
LexLess(a, b) ==
    IF a = <<>> \/ b = <<>> THEN FALSE
    ELSE IF Head(a) # Head(b) THEN DigitVal(Head(a)) < DigitVal(Head(b))
    ELSE LexLess(Tail(a), Tail(b))

\* m < n for two digit sequences without leading zeros
MagLess(m, n) ==
    \/ Len(m) < Len(n)
    \/ Len(m) = Len(n) /\ LexLess(m, n)

IsNegative(m) == m # <<>> /\ Head(m) = "-"

\* m < n for two values of ParseInt
IntLess(m, n) ==
    IF IsNegative(m)
    THEN IF IsNegative(n) THEN MagLess(Tail(n), Tail(m)) ELSE TRUE
    ELSE IF IsNegative(n) THEN FALSE ELSE MagLess(m, n)

IntLeq(m, n) == m = n \/ IntLess(m, n)

Header == <<"t", "i", "m", "e", "s", "t", "a", "m", "p", ",", "o", "p", "e", "n",
            ",", "h", "i", "g", "h", ",", "l", "o", "w", ",", "c", "l", "o", "s",
            "e", ",", "v", "o", "l", "u", "m", "e">>

First6(parts) == SubSeq(parts, 1, MinFields)

(***************************************************************************)
(* Input archives. An archive has a number of entries named *.csv; rows    *)
(* are the lines that can be read from the first of them, and a corrupt    *)
(* archive raises an error once those lines have been read (none for an    *)
(* archive that cannot be opened).                                         *)
(***************************************************************************)
A13 == <<"1", "7", "3", "5", "6", "8", "9", "6", "0", "0", "0", "0", "0">>
A16 == A13 \o <<"0", "0", "0">>

\* open, high, low, close, volume and one of the trailing Binance columns
Candle(ts) == ts \o <<",", "o", ",", "h", ",", "l", ",", "c", ",", "v", ",", "x">>
\* a record of the same instant with another open price
OtherCandle(ts) == ts \o <<",", "p", ",", "h", ",", "l", ",", "c", ",", "v", ",", "x">>
ShortLine == <<"9", ",", "o">>

StreamLines == {Candle(A13), OtherCandle(A13), Candle(A16), ShortLine}

BoundedSeq(S, n) == UNION {[1..k -> S] : k \in 0..n}

\* the number of entries named *.csv in an archive of each kind
Entries(kind) == IF kind = "nocsv" THEN 0 ELSE IF kind = "twocsv" THEN 2 ELSE 1

\* every line of every archive, in visiting order
RECURSIVE AllLines(_)
AllLines(z) == IF z = <<>> THEN <<>> ELSE Head(z).rows \o AllLines(Tail(z))

\* the variables of a script that does not run
StreamIdle ==
    /\ i = 0
    /\ outfile = <<>>
    /\ last_timestamp = <<>>
    /\ total_candles = 0
    /\ duplicates_skipped = 0
    /\ file_candles = 0
    /\ file_duplicates = 0
    /\ fixed_out = <<>>
    /\ total_lines = 0
    /\ fixed_lines = 0

BulkIdle ==
    /\ all_rows = <<>>
    /\ processed_files = 0
    /\ unique_rows = <<>>
    /\ output_file = <<>>
    /\ result = [status |-> "none"]
    /\ all_lines = <<>>
    /\ ret = "none"

NoPrev == [downloaded |-> 0, skipped |-> 0, failed |-> 0,
           disk |-> [f \in 1..MaxFiles |-> [state |-> "absent", by |-> 0]]]

FetchIdle ==
    /\ run = 0
    /\ idx = 0
    /\ disk = [f \in 1..MaxFiles |-> [state |-> "absent", by |-> 0]]
    /\ attempt = 0
    /\ events = <<>>
    /\ dl_result = "none"
    /\ downloaded = 0
    /\ skipped = 0
    /\ failed = 0
    /\ report = <<>>
    /\ net_count = 0
    /\ prev = NoPrev

(***************************************************************************)
(* convert_1s_streaming.py: main                                           *)
(***************************************************************************)
\* mutants of IsDuplicate: no row is ever dropped; every row that is not later
\* than the last one written is dropped
IsDuplicate_Never(timestamp, last) == FALSE
IsDuplicate_Seen(timestamp, last) ==
    last # <<>> /\ IntLeq(ParseInt(timestamp), ParseInt(last[1]))

\* line 102: a row is a duplicate when its timestamp text is the last one written
IsDuplicate(timestamp, last) == last = <<timestamp>>

\* mutant of StreamRecord: the row is written with all its fields
StreamRecord_AllFields(parts) == Join(parts, ",")

\* lines 109-111: the record written for a row
StreamRecord(parts) == Join(First6(parts), ",")

InitStream ==
    /\ prog = "stream"
    /\ pc = "start"
    /\ total_files \in 0..MaxArchives
    /\ zip_files = <<>>
    /\ errors = <<>>
    /\ i = 0
    /\ outfile = <<>>
    /\ last_timestamp = <<>>
    /\ total_candles = 0
    /\ duplicates_skipped = 0
    /\ file_candles = 0
    /\ file_duplicates = 0
    /\ fixed_out = <<>>
    /\ total_lines = 0
    /\ fixed_lines = 0
    /\ BulkIdle
    /\ FetchIdle

\* lines 51-74: a missing directory or a directory without archive ends the
\* run with 1 before the output is opened
StreamStart ==
    /\ UNCHANGED bulkVars
    /\ UNCHANGED <<fetchVars, errors>>
    /\ prog = "stream" /\ pc = "start"
    /\ IF total_files = 0
       THEN pc' = "error" /\ outfile' = outfile
       ELSE pc' = "loop" /\ outfile' = <<Header>>
    /\ UNCHANGED <<prog, total_files, zip_files, i, last_timestamp, total_candles,
                   duplicates_skipped, file_candles, file_duplicates,
                   fixed_out, total_lines, fixed_lines>>

\* lines 76-91: the next archive is opened; one without a CSV entry is
\* skipped (csv says whether csv_files holds a name; the first one is read)
StreamOpen ==
    /\ UNCHANGED bulkVars
    /\ UNCHANGED <<fetchVars, errors>>
    /\ prog = "stream" /\ pc = "loop" /\ i < total_files
    /\ file_candles' = 0
    /\ file_duplicates' = 0
    /\ \E csv \in BOOLEAN :
         /\ zip_files' = Append(zip_files,
                                [entries |-> IF csv THEN 1 ELSE 0, rows |-> <<>>,
                                 corrupt |-> FALSE])
         /\ IF csv
            THEN pc' = "lines" /\ i' = i
            ELSE pc' = "loop" /\ i' = i + 1
    /\ UNCHANGED <<prog, total_files, outfile, last_timestamp, total_candles,
                   duplicates_skipped, fixed_out, total_lines, fixed_lines>>

\* lines 92-112: one line of the current archive
StreamLine ==
    /\ UNCHANGED bulkVars
    /\ UNCHANGED <<fetchVars, errors>>
    /\ prog = "stream" /\ pc = "lines"
    /\ Len(AllLines(zip_files)) < MaxRows
    /\ \E raw \in StreamLines :
         /\ zip_files' = [zip_files EXCEPT ![i + 1].rows = Append(@, raw)]
         /\ LET line == Strip(raw)
                parts == Split(line, ",")
            IN  IF line # <<>> /\ Len(parts) >= MinFields
                THEN IF IsDuplicate(parts[1], last_timestamp)
                     THEN /\ file_duplicates' = file_duplicates + 1
                          /\ UNCHANGED <<last_timestamp, outfile, file_candles>>
                     ELSE /\ last_timestamp' = <<parts[1]>>
                          /\ outfile' = Append(outfile, StreamRecord(parts))
                          /\ file_candles' = file_candles + 1
                          /\ UNCHANGED file_duplicates
                ELSE UNCHANGED <<last_timestamp, outfile, file_candles,
                                 file_duplicates>>
    /\ UNCHANGED <<prog, pc, total_files, i, total_candles, duplicates_skipped,
                   fixed_out, total_lines, fixed_lines>>

\* lines 114-132: the archive was read to its end; its counts join the totals
StreamArchiveDone ==
    /\ UNCHANGED bulkVars
    /\ UNCHANGED <<fetchVars, errors>>
    /\ prog = "stream" /\ pc = "lines"
    /\ total_candles' = total_candles + file_candles
    /\ duplicates_skipped' = duplicates_skipped + file_duplicates
    /\ i' = i + 1
    /\ pc' = "loop"
    /\ UNCHANGED <<prog, total_files, zip_files, outfile, last_timestamp,
                   file_candles, file_duplicates, fixed_out, total_lines,
                   fixed_lines>>

\* lines 134-135: opening or reading the archive raised; the error is printed
\* and the loop goes on
StreamArchiveError ==
    /\ UNCHANGED bulkVars
    /\ UNCHANGED fetchVars
    /\ prog = "stream" /\ pc = "lines"
    /\ zip_files' = [zip_files EXCEPT ![i + 1].corrupt = TRUE]
    /\ errors' = Append(errors, i + 1)
    /\ i' = i + 1
    /\ pc' = "loop"
    /\ UNCHANGED <<prog, total_files, outfile, last_timestamp, total_candles,
                   duplicates_skipped, file_candles, file_duplicates, fixed_out,
                   total_lines, fixed_lines>>

\* lines 137-153: the output is closed and the totals are printed
StreamFinish ==
    /\ UNCHANGED bulkVars
    /\ UNCHANGED <<fetchVars, errors>>
    /\ prog = "stream" /\ pc = "loop" /\ i = total_files
    /\ pc' = "converted"
    /\ UNCHANGED <<prog, total_files, zip_files, i, outfile, last_timestamp, total_candles,
                   duplicates_skipped, file_candles, file_duplicates, fixed_out,
                   total_lines, fixed_lines>>

(***************************************************************************)
(* fix_1s_timestamps.py: main, run on the file the streaming converter     *)
(* wrote (both scripts name the same path).                                *)
(***************************************************************************)
\* mutant of Reconcile: every timestamp of 16 characters or more is cut
Reconcile_Longer(timestamp) ==
    IF Len(timestamp) >= MicroWidth
    THEN SubSeq(timestamp, 1, Len(timestamp) - MicroSuffix)
    ELSE timestamp

\* lines 61-63: a timestamp of 16 characters loses its last 3
Reconcile(timestamp) ==
    IF Len(timestamp) = MicroWidth
    THEN SubSeq(timestamp, 1, Len(timestamp) - MicroSuffix)
    ELSE timestamp

\* lines 56-68: the line written for a data line
FixedLine(line) ==
    LET parts == Split(Strip(line), ",")
    IN  IF Len(parts) >= MinFields
        THEN Join(<<Reconcile(parts[1])>> \o Tail(parts), ",")
        ELSE line

RECURSIVE FixedLines(_)
FixedLines(lines) ==
    IF lines = <<>> THEN <<>>
    ELSE <<FixedLine(Head(lines))>> \o FixedLines(Tail(lines))

\* lines 61-64: the lines counted as fixed
NeedsFix(line) ==
    LET parts == Split(Strip(line), ",")
    IN  Len(parts) >= MinFields /\ Len(parts[1]) = MicroWidth

\* line 42: the lines of a file opened in text mode. A file is held as the
\* texts between its line feeds; a carriage return ends a line as well, and
\* a carriage return before a line feed ends it once
RECURSIVE TextLines(_)
TextLines(file) ==
    IF file = <<>> THEN <<>>
    ELSE LET line == Head(file)
             body == IF line # <<>> /\ line[Len(line)] = "\r"
                     THEN SubSeq(line, 1, Len(line) - 1) ELSE line
         IN  Split(body, "\r") \o TextLines(Tail(file))

\* lines 37-85: every line is copied, the first one as it is, and the fixed
\* file replaces the input file
FixMain ==
    /\ UNCHANGED bulkVars
    /\ UNCHANGED <<fetchVars, errors>>
    /\ \/ prog = "stream" /\ pc = "converted"
       \/ prog = "fix" /\ pc = "input"
    /\ pc' = "fixed"
    /\ LET lines == TextLines(outfile)
       IN  /\ total_lines' = Len(lines)
           /\ fixed_lines' = Cardinality({k \in 2..Len(lines) : NeedsFix(lines[k])})
           /\ fixed_out' = IF lines = <<>> THEN <<>>
                           ELSE <<Head(lines)>> \o FixedLines(Tail(lines))
    /\ outfile' = fixed_out'
    /\ UNCHANGED <<prog, total_files, zip_files, i, last_timestamp, total_candles,
                   duplicates_skipped, file_candles, file_duplicates>>

NextStream ==
    \/ StreamStart
    \/ StreamOpen
    \/ StreamLine
    \/ StreamArchiveDone
    \/ StreamArchiveError
    \/ StreamFinish
    \/ FixMain

SpecStream == InitStream /\ [][NextStream]_vars

(***************************************************************************)
(* fix_1s_timestamps.py run by itself, once and again, on a series file    *)
(* with timestamps of several widths.                                      *)
(***************************************************************************)
T19 == <<"1", "7", "3", "5", "6", "8", "9", "6", "0", "0", "1", "2", "3", "4", "5",
         "6", "7", "8", "9">>
Wide(n) == SubSeq(T19, 1, n)

\* records of 12 to 19 characters of timestamp, a line of two fields and a
\* record followed by a blank
FixLines == {Candle(A13), Candle(Wide(12)), Candle(Wide(15)), Candle(Wide(16)),
             Candle(Wide(17)), Candle(T19), Wide(16) \o <<",", "o">>,
             Candle(Wide(16)) \o <<" ">>}

InitFix ==
    /\ prog = "fix"
    /\ pc = "input"
    /\ total_files = 0
    /\ zip_files = <<>>
    /\ errors = <<>>
    /\ outfile \in {<<Header>> \o lines : lines \in BoundedSeq(FixLines, MaxRows)}
    /\ i = 0
    /\ last_timestamp = <<>>
    /\ total_candles = 0
    /\ duplicates_skipped = 0
    /\ file_candles = 0
    /\ file_duplicates = 0
    /\ fixed_out = <<>>
    /\ total_lines = 0
    /\ fixed_lines = 0
    /\ BulkIdle
    /\ run = 1
    /\ idx = 0
    /\ disk = [f \in 1..MaxFiles |-> [state |-> "absent", by |-> 0]]
    /\ attempt = 0
    /\ events = <<>>
    /\ dl_result = "none"
    /\ downloaded = 0
    /\ skipped = 0
    /\ failed = 0
    /\ report = <<>>
    /\ net_count = 0
    /\ prev = NoPrev

\* the fixer is run again on the file it produced
FixAgain ==
    /\ prog = "fix" /\ pc = "fixed" /\ run < MaxRuns
    /\ pc' = "input"
    /\ run' = run + 1
    /\ UNCHANGED <<prog, total_files, zip_files, errors, streamVars, bulkVars, idx,
                   disk, attempt, events, dl_result, downloaded, skipped, failed,
                   report, net_count, prev>>

NextFix ==
    \/ FixMain
    \/ FixAgain

SpecFix == InitFix /\ [][NextFix]_vars

(***************************************************************************)
(* convert_all_data.py: convert_timeframe                                  *)
(***************************************************************************)
\* a row of 6 fields whose first field is no integer, as the header row of an
\* upstream file is
HeaderRow == <<"t", ",", "o", ",", "h", ",", "l", ",", "c", ",", "v">>

BulkLines == {Candle(<<"9">>), OtherCandle(<<"9">>), Candle(<<"1", "0">>), ShortLine,
              HeaderRow}

\* str < str of Python: the first differing character decides, a proper
\* prefix comes first
RECURSIVE StrLess(_, _)
StrLess(a, b) ==
    IF b = <<>> THEN FALSE
    ELSE IF a = <<>> THEN TRUE
    ELSE IF Head(a) # Head(b) THEN Ord(Head(a)) < Ord(Head(b))
    ELSE StrLess(Tail(a), Tail(b))

\* mutant of TsLess: the timestamps are compared as text
TsLess_Text(a, b) == StrLess(a, b)

\* line 115: the order of two timestamps under key=int(x[0])
TsLess(a, b) == IntLess(ParseInt(a), ParseInt(b))

\* mutant of InsertRow: a sort that is not stable, a row goes before the rows
\* of equal timestamp
RECURSIVE InsertRow_Front(_, _)
InsertRow_Front(sorted, row) ==
    IF sorted = <<>> THEN <<row>>
    ELSE IF ~TsLess(Head(sorted)[1], row[1])
         THEN <<row>> \o sorted
         ELSE <<Head(sorted)>> \o InsertRow_Front(Tail(sorted), row)

\* list.sort is stable: a row goes behind every row that is not greater
RECURSIVE InsertRow(_, _)
InsertRow(sorted, row) ==
    IF sorted = <<>> THEN <<row>>
    ELSE IF TsLess(row[1], Head(sorted)[1])
         THEN <<row>> \o sorted
         ELSE <<Head(sorted)>> \o InsertRow(Tail(sorted), row)

RECURSIVE SortRows(_)
SortRows(rows) ==
    IF rows = <<>> THEN <<>>
    ELSE InsertRow(SortRows(SubSeq(rows, 1, Len(rows) - 1)), rows[Len(rows)])

\* lines 118-124: the first row of every timestamp text, in list order
RECURSIVE UniqueRows(_)
UniqueRows(rows) ==
    IF rows = <<>> THEN <<>>
    ELSE LET front == SubSeq(rows, 1, Len(rows) - 1)
             row == rows[Len(rows)]
         IN  IF \E k \in 1..Len(front) : front[k][1] = row[1]
             THEN UniqueRows(front)
             ELSE Append(UniqueRows(front), row)

\* content.strip().split("\n") for an entry with the given lines: the blanks
\* before the first and behind the last line of the entry are removed
ContentLines(rows) == Split(Strip(Join(rows, "\n")), "\n")

\* lines 87-90: the non-empty lines of the stripped content
BulkContentLines(rows) == SelectSeq(ContentLines(rows), LAMBDA l : l # <<>>)

\* lines 91-102: the rows an archive contributes
RECURSIVE BulkRows(_)
BulkRows(lines) ==
    IF lines = <<>> THEN <<>>
    ELSE LET parts == Split(Head(lines), ",")
         IN  (IF Len(parts) >= MinFields THEN <<First6(parts)>> ELSE <<>>)
             \o BulkRows(Tail(lines))

\* csv.writer puts a field that holds a comma, a double quote or a line end
\* between double quotes and writes each of its double quotes twice
RECURSIVE DoubleQuotes(_)
DoubleQuotes(field) ==
    IF field = <<>> THEN <<>>
    ELSE (IF Head(field) = "\"" THEN <<"\"", "\"">> ELSE <<Head(field)>>)
         \o DoubleQuotes(Tail(field))

CsvField(field) ==
    IF \E k \in 1..Len(field) : field[k] \in {",", "\"", "\r", "\n"}
    THEN <<"\"">> \o DoubleQuotes(field) \o <<"\"">>
    ELSE field

\* lines 128-130: the lines csv.writer writes for rows of 6 fields, each
\* without its line end (carriage return and line feed)
RECURSIVE CsvLines(_)
CsvLines(rows) ==
    IF rows = <<>> THEN <<>>
    ELSE <<Join([k \in 1..Len(Head(rows)) |-> CsvField(Head(rows)[k])], ",")>>
         \o CsvLines(Tail(rows))

\* mutant of Taken: the lines are taken while they are read, up to the error
Taken_AsRead(kind, rows) == IF kind = "nocsv" THEN <<>> ELSE rows

\* lines 81-87: the entry is read and decoded as a whole before any line is
\* looked at, so an archive that raises gives no line; one without a CSV
\* entry is passed over
Taken(kind, rows) == IF kind \in {"ok", "twocsv"} THEN rows ELSE <<>>

\* mutant of Processed: the archive is counted whether it raised or not
Processed_Always(kind) == TRUE

\* line 103: processed_files += 1 is reached when nothing raised and the
\* archive had a CSV entry, one or several
Processed(kind) == kind \in {"ok", "twocsv"}

InitBulk ==
    /\ prog = "bulk"
    /\ pc = "start"
    /\ total_files \in 0..MaxArchives
    /\ zip_files = <<>>
    /\ errors = <<>>
    /\ StreamIdle
    /\ BulkIdle
    /\ FetchIdle

\* lines 57-76: the directory of the timeframe is missing, or it holds no
\* archive, or the conversion starts
BulkStart ==
    /\ UNCHANGED <<all_lines, ret>>
    /\ UNCHANGED <<fetchVars, errors>>
    /\ prog = "bulk" /\ pc = "start"
    /\ IF total_files = 0
       THEN /\ pc' = "done"
            /\ \E exists \in BOOLEAN :
                 result' = [status |-> "error",
                            message |-> IF exists THEN "No zip files found"
                                        ELSE "Directory not found"]
       ELSE /\ pc' = "loop"
            /\ result' = result
    /\ UNCHANGED <<prog, total_files, zip_files, streamVars, all_rows,
                   processed_files, unique_rows, output_file>>

\* lines 78-105: one archive. A corrupt archive raises at the lines that
\* could still be read from it, and the error is printed; of several CSV
\* entries the first is read (line 86)
BulkArchive ==
    /\ UNCHANGED <<all_lines, ret>>
    /\ UNCHANGED fetchVars
    /\ prog = "bulk" /\ pc = "loop" /\ Len(zip_files) < total_files
    /\ \E kind \in {"ok", "twocsv", "corrupt", "nocsv"} :
       \E rows \in BoundedSeq(BulkLines, MaxRows - Len(AllLines(zip_files))) :
         /\ kind = "nocsv" => rows = <<>>
         /\ zip_files' = Append(zip_files,
                                [entries |-> Entries(kind),
                                 rows |-> rows, corrupt |-> kind = "corrupt"])
         /\ all_rows' = all_rows \o BulkRows(BulkContentLines(Taken(kind, rows)))
         /\ processed_files' = IF Processed(kind) THEN processed_files + 1
                                ELSE processed_files
         /\ errors' = IF kind = "corrupt" THEN Append(errors, Len(zip_files) + 1)
                       ELSE errors
    /\ UNCHANGED <<prog, pc, total_files, streamVars, unique_rows, output_file,
                   result>>

\* line 115: the sort key is computed for every row and raises on a timestamp
\* int() does not take
SortRaises(rows) == \E k \in 1..Len(rows) : ~IsDecimal(rows[k][1])

\* lines 107-115: nothing extracted is an error; otherwise the rows are sorted.
\* int() raises on a timestamp that is no integer and the call ends with it
BulkSort ==
    /\ UNCHANGED <<all_lines, ret>>
    /\ UNCHANGED <<fetchVars, errors>>
    /\ prog = "bulk" /\ pc = "loop" /\ Len(zip_files) = total_files
    /\ IF all_rows = <<>>
       THEN /\ pc' = "done"
            /\ result' = [status |-> "error", message |-> "No data extracted"]
            /\ UNCHANGED all_rows
       ELSE IF ~SortRaises(all_rows)
       THEN /\ pc' = "sorted"
            /\ all_rows' = SortRows(all_rows)
            /\ UNCHANGED result
       ELSE /\ pc' = "raised"
            /\ UNCHANGED <<all_rows, result>>
    /\ UNCHANGED <<prog, total_files, zip_files, streamVars, processed_files,
                   unique_rows, output_file>>

\* lines 117-124
BulkDedup ==
    /\ UNCHANGED <<all_lines, ret>>
    /\ UNCHANGED <<fetchVars, errors>>
    /\ prog = "bulk" /\ pc = "sorted"
    /\ pc' = "unique"
    /\ unique_rows' = UniqueRows(all_rows)
    /\ UNCHANGED <<prog, total_files, zip_files, streamVars, all_rows,
                   processed_files, output_file, result>>

\* lines 126-140
BulkWrite ==
    /\ UNCHANGED <<all_lines, ret>>
    /\ UNCHANGED <<fetchVars, errors>>
    /\ prog = "bulk" /\ pc = "unique"
    /\ pc' = "done"
    /\ output_file' = <<Header>> \o CsvLines(unique_rows)
    /\ result' = [status |-> "success", files_processed |-> processed_files,
                  candles |-> Len(unique_rows)]
    /\ UNCHANGED <<prog, total_files, zip_files, streamVars, all_rows,
                   processed_files, unique_rows>>

NextBulk ==
    \/ BulkStart
    \/ BulkArchive
    \/ BulkSort
    \/ BulkDedup
    \/ BulkWrite

SpecBulk == InitBulk /\ [][NextBulk]_vars

\* a conversion run in either mode: the streaming 1s pipeline or
\* convert_timeframe
InitConvert == InitStream \/ InitBulk

NextConvert ==
    \/ NextStream
    \/ NextBulk

SpecConvert == InitConvert /\ [][NextConvert]_vars

(***************************************************************************)
(* convert_binance_to_zigquant.py: convert_binance_to_zigquant             *)
(***************************************************************************)
\* lines 49-57: the lines an archive contributes, cut to 6 fields; a blank
\* line is passed over
RECURSIVE BinanceLines(_)
BinanceLines(lines) ==
    IF lines = <<>> THEN <<>>
    ELSE LET fields == Split(Head(lines), ",")
         IN  (IF Strip(Head(lines)) # <<>> /\ Len(fields) >= MinFields
              THEN <<Join(First6(fields), ",")>> ELSE <<>>)
             \o BinanceLines(Tail(lines))

\* line 71: key=lambda x: int(x.split(',')[0]), stable as every list.sort
RECURSIVE InsertLine(_, _)
InsertLine(sorted, line) ==
    IF sorted = <<>> THEN <<line>>
    ELSE IF TsLess(Split(line, ",")[1], Split(Head(sorted), ",")[1])
         THEN <<line>> \o sorted
         ELSE <<Head(sorted)>> \o InsertLine(Tail(sorted), line)

RECURSIVE SortLines(_)
SortLines(lines) ==
    IF lines = <<>> THEN <<>>
    ELSE InsertLine(SortLines(SubSeq(lines, 1, Len(lines) - 1)), lines[Len(lines)])

\* the lines of the archives convert_binance_to_zigquant reads
BinanceInput == BulkLines \cup {Candle(A16)}

InitBinance ==
    /\ prog = "binance"
    /\ pc = "start"
    /\ total_files \in 0..MaxArchives
    /\ zip_files = <<>>
    /\ errors = <<>>
    /\ StreamIdle
    /\ BulkIdle
    /\ FetchIdle

\* lines 18-26
BinanceStart ==
    /\ UNCHANGED <<fetchVars, errors>>
    /\ prog = "binance" /\ pc = "start"
    /\ IF total_files = 0
       THEN pc' = "done" /\ ret' = "False"
       ELSE pc' = "loop" /\ ret' = ret
    /\ UNCHANGED <<prog, total_files, zip_files, streamVars, all_rows,
                   processed_files, unique_rows, output_file, result, all_lines>>

\* lines 29-63: one archive, read as a whole; of several CSV entries the
\* first is read (line 38)
BinanceArchive ==
    /\ UNCHANGED fetchVars
    /\ prog = "binance" /\ pc = "loop" /\ Len(zip_files) < total_files
    /\ \E kind \in {"ok", "twocsv", "corrupt", "nocsv"} :
       \E rows \in BoundedSeq(BinanceInput, MaxRows - Len(AllLines(zip_files))) :
         /\ kind = "nocsv" => rows = <<>>
         /\ zip_files' = Append(zip_files,
                                [entries |-> Entries(kind),
                                 rows |-> rows, corrupt |-> kind = "corrupt"])
         /\ all_lines' = all_lines
                           \o BinanceLines(ContentLines(Taken(kind, rows)))
         /\ errors' = IF kind = "corrupt" THEN Append(errors, Len(zip_files) + 1)
                       ELSE errors
    /\ UNCHANGED <<prog, pc, total_files, streamVars, all_rows, processed_files,
                   unique_rows, output_file, result, ret>>

\* lines 65-84: nothing extracted returns False; otherwise the lines are
\* sorted and written. int() raises on a timestamp that is no integer
BinanceSortWrite ==
    /\ UNCHANGED <<fetchVars, errors>>
    /\ prog = "binance" /\ pc = "loop" /\ Len(zip_files) = total_files
    /\ IF all_lines = <<>>
       THEN /\ pc' = "done"
            /\ ret' = "False"
            /\ UNCHANGED <<all_lines, output_file>>
       ELSE IF \A k \in 1..Len(all_lines) : IsDecimal(Split(all_lines[k], ",")[1])
       THEN /\ pc' = "done"
            /\ all_lines' = SortLines(all_lines)
            /\ output_file' = <<Header>> \o all_lines'
            /\ ret' = "True"
       ELSE /\ pc' = "raised"
            /\ UNCHANGED <<all_lines, output_file, ret>>
    /\ UNCHANGED <<prog, total_files, zip_files, streamVars, all_rows,
                   processed_files, unique_rows, result>>

NextBinance ==
    \/ BinanceStart
    \/ BinanceArchive
    \/ BinanceSortWrite

SpecBinance == InitBinance /\ [][NextBinance]_vars

(***************************************************************************)
(* download_all_timeframes.py: download_timeframe and download_file, for   *)
(* one timeframe. A month's file on disk is absent, partial (opened for    *)
(* writing, body not complete) or complete, with the run that wrote it.    *)
(* An attempt ends in one of: "ok"; "notfound" (HTTPError 404); "http"     *)
(* (another HTTPError); "transient" (any other exception of urlopen);      *)
(* "broken" (an exception once the file is open for writing).              *)
(***************************************************************************)
\* mutant of Exists: the check is missing
Exists_Never(file) == FALSE

\* line 115: save_path.exists()
Exists(file) == file.state # "absent"

\* mutant of Returns: a 404 is handled like any other HTTP error
Returns_OkOnly(what) == what = "ok"

\* lines 70, 73-75: the outcomes on which download_file returns at once
Returns(what) == what \in {"ok", "notfound"}

\* mutant of LoopEnds: one attempt more
LoopEnds_OneMore(att) == att + 1 = max_retries + 1

\* line 44: range(max_retries) has no value after att
LoopEnds(att) == att + 1 = max_retries

\* lines 78-81: the outcomes after which download_file sleeps, and how long
Sleeps(what, att) == what \in {"transient", "broken"} /\ att < max_retries - 1
Backoff(att) == 2 ^ att

NetEvent(what) == [ev |-> "net", what |-> what, secs |-> 0]
SleepEvent(att) == [ev |-> "sleep", what |-> "", secs |-> Backoff(att)]

\* mutant of Unlinked: the caller leaves the file where it is
Unlinked_Kept(file) == file

\* lines 129-130: if save_path.exists(): save_path.unlink()
Unlinked(file) == IF Exists(file) THEN [state |-> "absent", by |-> 0] ELSE file

\* how the latest download_file call ended
Cause ==
    IF events # <<>> /\ events[Len(events)].what = "ok" THEN "ok"
    ELSE IF events # <<>> /\ events[Len(events)].what = "notfound" THEN "notfound"
    ELSE "exhausted"

InitFetch ==
    /\ prog = "fetch"
    /\ pc = "tf_loop"
    /\ total_files = 0
    /\ zip_files = <<>>
    /\ errors = <<>>
    /\ StreamIdle
    /\ BulkIdle
    /\ run = 1
    /\ idx = 0
    /\ disk = [f \in 1..MaxFiles |-> [state |-> "absent", by |-> 0]]
    /\ attempt = 0
    /\ events = <<>>
    /\ dl_result = "none"
    /\ downloaded = 0
    /\ skipped = 0
    /\ failed = 0
    /\ report = <<>>
    /\ net_count = 0
    /\ prev = NoPrev

\* lines 109-117: a month whose file exists is skipped
TfSkip ==
    /\ prog = "fetch" /\ pc = "tf_loop" /\ idx < MaxFiles
    /\ Exists(disk[idx + 1])
    /\ skipped' = skipped + 1
    /\ idx' = idx + 1
    /\ UNCHANGED <<prog, pc, total_files, zip_files, errors, streamVars, bulkVars, run,
                   disk, attempt, events, dl_result, downloaded, failed, report,
                   net_count, prev>>

\* lines 119-124, 42-44: download_file is called for a month without a file
TfCall ==
    /\ prog = "fetch" /\ pc = "tf_loop" /\ idx < MaxFiles
    /\ ~Exists(disk[idx + 1])
    /\ pc' = "attempt"
    /\ attempt' = 0
    /\ events' = <<>>
    /\ dl_result' = "none"
    /\ UNCHANGED <<prog, total_files, zip_files, errors, streamVars, bulkVars, run, idx,
                   disk, downloaded, skipped, failed, report, net_count, prev>>

\* lines 45-75: the try of one pass of the retry loop, the attempt ending in
\* what: the call returns, or the pass goes on in a handler
DlAttempt(what) ==
    /\ prog = "fetch" /\ pc = "attempt"
    /\ net_count' = net_count + 1
    /\ events' = Append(events, NetEvent(what))
    /\ disk' = IF what = "ok"
               THEN [disk EXCEPT ![idx + 1] = [state |-> "complete", by |-> run]]
               ELSE IF what = "broken"
               THEN [disk EXCEPT ![idx + 1] = [state |-> "partial", by |-> run]]
               ELSE disk
    /\ IF Returns(what)
       THEN /\ pc' = "returned"
            /\ dl_result' = IF what = "ok" THEN "True" ELSE "False"
            /\ UNCHANGED attempt
       ELSE /\ pc' = "except"
            /\ UNCHANGED <<attempt, dl_result>>
    /\ UNCHANGED <<prog, total_files, zip_files, errors, streamVars, bulkVars, run, idx,
                   downloaded, skipped, failed, report, prev>>

DlOk == DlAttempt("ok")
DlNotFound == DlAttempt("notfound")
DlHttpError == DlAttempt("http")
DlTransient == DlAttempt("transient")
DlBroken == DlAttempt("broken")

\* lines 76-83, 44: the handler of an attempt that did not return. It goes
\* into the sleep of line 81, where the loop variable still has the value of
\* the attempt that failed; without a sleep the loop ends and the call returns
\* False, or the loop goes to its next attempt
DlExcept ==
    /\ prog = "fetch" /\ pc = "except"
    /\ LET what == events[Len(events)].what
       IN  IF Sleeps(what, attempt)
           THEN /\ pc' = "sleeping"
                /\ events' = Append(events, SleepEvent(attempt))
                /\ UNCHANGED <<attempt, dl_result>>
           ELSE IF LoopEnds(attempt)
           THEN /\ pc' = "returned"
                /\ dl_result' = "False"
                /\ UNCHANGED <<attempt, events>>
           ELSE /\ pc' = "attempt"
                /\ attempt' = attempt + 1
                /\ UNCHANGED <<events, dl_result>>
    /\ UNCHANGED <<prog, total_files, zip_files, errors, streamVars, bulkVars, run, idx,
                   disk, downloaded, skipped, failed, report, net_count, prev>>

\* lines 81, 44: the sleep is over and the loop goes to its next attempt
DlWake ==
    /\ prog = "fetch" /\ pc = "sleeping"
    /\ pc' = "attempt"
    /\ attempt' = attempt + 1
    /\ UNCHANGED <<prog, total_files, zip_files, errors, streamVars, bulkVars, run, idx,
                   disk, events, dl_result, downloaded, skipped, failed, report,
                   net_count, prev>>

\* lines 124-132: the caller counts the month; a file left behind by a call
\* that returned False is removed
TfCount ==
    /\ prog = "fetch" /\ pc = "returned"
    /\ pc' = "tf_loop"
    /\ idx' = idx + 1
    /\ IF dl_result = "True"
       THEN /\ downloaded' = downloaded + 1
            /\ UNCHANGED <<failed, disk>>
       ELSE /\ failed' = failed + 1
            /\ disk' = [disk EXCEPT ![idx + 1] = Unlinked(@)]
            /\ UNCHANGED downloaded
    /\ report' = Append(report,
                        [month |-> idx + 1, cause |-> Cause, ret |-> dl_result,
                         counted |-> IF dl_result = "True" THEN "downloaded"
                                     ELSE "failed",
                         printed |-> IF dl_result = "True" THEN "OK"
                                     ELSE "Not found"])
    /\ UNCHANGED <<prog, total_files, zip_files, errors, streamVars, bulkVars, run, attempt,
                   events, dl_result, skipped, net_count, prev>>

\* lines 134-137: the summary is printed and the counts are returned
TfDone ==
    /\ prog = "fetch" /\ pc = "tf_loop" /\ idx = MaxFiles
    /\ pc' = "tf_done"
    /\ UNCHANGED <<prog, total_files, zip_files, errors, streamVars, bulkVars, fetchVars>>

\* the script is run again on the same output directory, after a run that
\* ended or was interrupted
Rerun ==
    /\ prog = "fetch" /\ pc \in {"tf_done", "killed"} /\ run < MaxRuns
    /\ pc' = "tf_loop"
    /\ run' = run + 1
    /\ prev' = [downloaded |-> downloaded, skipped |-> skipped,
                failed |-> failed, disk |-> disk]
    /\ idx' = 0
    /\ downloaded' = 0
    /\ skipped' = 0
    /\ failed' = 0
    /\ report' = <<>>
    /\ net_count' = 0
    /\ UNCHANGED <<prog, total_files, zip_files, errors, streamVars, bulkVars, disk,
                   attempt, events, dl_result>>

NextFetch ==
    \/ TfSkip
    \/ TfCall
    \/ DlOk
    \/ DlNotFound
    \/ DlHttpError
    \/ DlTransient
    \/ DlBroken
    \/ DlExcept
    \/ DlWake
    \/ TfCount
    \/ TfDone
    \/ Rerun

SpecFetch == InitFetch /\ [][NextFetch]_vars

\* the script keeps running until it ends
SpecFetchFair == SpecFetch /\ WF_vars(NextFetch)

(***************************************************************************)
(* The downloader under Ctrl-C. KeyboardInterrupt is no Exception, so      *)
(* neither handler of download_file (lines 72, 78) catches it and nothing  *)
(* in download_timeframe or main does: the script ends where it is, and    *)
(* the files it wrote stay as they are.                                    *)
(***************************************************************************)
\* lines 64-68: interrupted once save_path is open for writing and before the
\* body is complete
DlInterrupt ==
    /\ prog = "fetch" /\ pc = "attempt"
    /\ pc' = "killed"
    /\ net_count' = net_count + 1
    /\ events' = Append(events, NetEvent("interrupted"))
    /\ disk' = [disk EXCEPT ![idx + 1] = [state |-> "partial", by |-> run]]
    /\ UNCHANGED <<prog, total_files, zip_files, errors, streamVars, bulkVars, run, idx,
                   attempt, dl_result, downloaded, skipped, failed, report, prev>>

\* interrupted anywhere else: between two months, before an attempt, in a
\* handler, during the sleep of line 81, before the cleanup of lines 129-130
Interrupt ==
    /\ prog = "fetch"
    /\ pc \in {"tf_loop", "attempt", "except", "sleeping", "returned"}
    /\ pc' = "killed"
    /\ UNCHANGED <<prog, total_files, zip_files, errors, streamVars, bulkVars, fetchVars>>

NextFetchCancel ==
    \/ NextFetch
    \/ DlInterrupt
    \/ Interrupt

SpecFetchCancel == InitFetch /\ [][NextFetchCancel]_vars

(***************************************************************************)
(* Vocabulary of the claims about the converters.                          *)
(***************************************************************************)
\* a line that carries a record: not blank, at least 6 fields (5 commas)
IsCandle(line) ==
    LET s == Strip(line)
    IN  s # <<>> /\ Cardinality({k \in 1..Len(s) : s[k] = ","}) >= MinFields - 1

\* the first field of a line
TsOf(line) ==
    LET s == Strip(line)
    IN  IF \A k \in 1..Len(s) : s[k] # "," THEN s
        ELSE SubSeq(s, 1, (CHOOSE k \in 1..Len(s) :
                              s[k] = "," /\ \A j \in 1..(k - 1) : s[j] # ",") - 1)

Timestamps(lines) == [k \in 1..Len(lines) |-> TsOf(lines[k])]

\* the timestamps of the records the input holds, in visiting order
InputTimestamps == Timestamps(SelectSeq(AllLines(zip_files), IsCandle))

\* the timestamps of the records of a series file
FileTimestamps(file) == Timestamps(Tail(file))

NoCorruptArchive == \A a \in 1..Len(zip_files) : ~zip_files[a].corrupt

\* the archives that raised no error, and the timestamps of their records
DecodedArchives == SelectSeq(zip_files, LAMBDA a : ~a.corrupt)
DecodedTimestamps == Timestamps(SelectSeq(AllLines(DecodedArchives), IsCandle))

Range(f) == {f[k] : k \in DOMAIN f}

\* the integer values are in non-decreasing / strictly increasing order
IntNonDecreasing(ts) ==
    \A k \in 1..(Len(ts) - 1) : IntLeq(ParseInt(ts[k]), ParseInt(ts[k + 1]))
IntIncreasing(ts) ==
    \A k \in 1..(Len(ts) - 1) : IntLess(ParseInt(ts[k]), ParseInt(ts[k + 1]))

\* the millisecond instant a timestamp text stands for: a 16-digit text counts
\* microseconds, a 13-digit text milliseconds
MsInstant(ts) == IF Len(ts) = 16 THEN SubSeq(ts, 1, 13) ELSE ts
MsInstants(ts) == [k \in 1..Len(ts) |-> MsInstant(ts[k])]

\* the elements of a sequence that differ from their predecessor
RECURSIVE RunHeads(_)
RunHeads(q) ==
    IF Len(q) <= 1 THEN q
    ELSE LET front == RunHeads(SubSeq(q, 1, Len(q) - 1))
         IN  IF q[Len(q)] = q[Len(q) - 1] THEN front ELSE Append(front, q[Len(q)])

(***************************************************************************)
(* C1. The 1s pipeline (streaming converter, then timestamp fixer): when   *)
(* the records arrive in non-decreasing order of their millisecond         *)
(* instant, the final file is in non-decreasing timestamp order and no two *)
(* consecutive records share a timestamp, also for inputs that mix 13- and *)
(* 16-digit timestamps. The code removes duplicates by comparing the       *)
(* timestamp text before the fixer shortens it, so this fails.             *)
(***************************************************************************)
C1_PipelineOrderedNoRepeat ==
    (/\ prog = "stream" /\ pc = "fixed"
     /\ NoCorruptArchive
     /\ IntNonDecreasing(MsInstants(InputTimestamps)))
    => /\ IntNonDecreasing(FileTimestamps(outfile))
       /\ \A k \in 1..(Len(outfile) - 2) :
             TsOf(outfile[k + 1]) # TsOf(outfile[k + 2])

(***************************************************************************)
(* C4. Streaming mode on archives that decode without error and whose rows *)
(* are in non-decreasing timestamp order: the timestamps written are the   *)
(* distinct input timestamps in strictly increasing order, the last        *)
(* written timestamp carrying over from one archive to the next, and the   *)
(* duplicate count reported is the number of records dropped.              *)
(***************************************************************************)
C4_Pre ==
    /\ prog = "stream" /\ pc = "converted"
    /\ NoCorruptArchive
    /\ IntNonDecreasing(InputTimestamps)

C4_StreamingDedup ==
    C4_Pre =>
       /\ IntIncreasing(FileTimestamps(outfile))
       /\ Range(FileTimestamps(outfile)) = Range(InputTimestamps)
       /\ duplicates_skipped = Len(InputTimestamps) - Len(FileTimestamps(outfile))

\* a timestamp ends one archive and starts the next, and is written once
C4_Witness ==
    /\ C4_Pre
    /\ \E a \in 1..(Len(zip_files) - 1) :
         LET r == zip_files[a].rows
             n == zip_files[a + 1].rows
         IN  /\ r # <<>> /\ n # <<>>
             /\ IsCandle(r[Len(r)]) /\ IsCandle(Head(n))
             /\ TsOf(r[Len(r)]) = TsOf(Head(n))
    /\ duplicates_skipped >= 1
    /\ Len(outfile) >= 3

(***************************************************************************)
(* C5. Streaming mode never reorders: the records written are the input    *)
(* records in the order met, without those whose timestamp is that of the  *)
(* record written last; a timestamp that comes back after another one is   *)
(* written again.                                                          *)
(***************************************************************************)
C5_StreamingKeepsOrder ==
    (prog = "stream" /\ pc = "converted")
    => FileTimestamps(outfile) = RunHeads(InputTimestamps)

\* out of order input with a timestamp that comes back: written as it came
C5_Witness ==
    /\ prog = "stream" /\ pc = "converted"
    /\ Len(InputTimestamps) = 3
    /\ InputTimestamps[1] = InputTimestamps[3]
    /\ IntLess(ParseInt(InputTimestamps[2]), ParseInt(InputTimestamps[1]))
    /\ FileTimestamps(outfile) = InputTimestamps

(***************************************************************************)
(* C2. Bulk mode of convert_timeframe: whatever the order of the archives  *)
(* and rows and however often a timestamp repeats, the timestamps written  *)
(* are the distinct timestamps of the archives that decode, in strictly    *)
(* increasing integer order, so the records dropped number the input       *)
(* records less the distinct timestamps.                                   *)
(***************************************************************************)
C2_Done == prog = "bulk" /\ pc = "done" /\ result.status = "success"

C2_BulkDedupOrder ==
    C2_Done =>
       /\ IntIncreasing(FileTimestamps(output_file))
       /\ Range(FileTimestamps(output_file)) = Range(DecodedTimestamps)
       /\ Len(DecodedTimestamps) - result.candles
            = Len(DecodedTimestamps) - Cardinality(Range(DecodedTimestamps))

\* rows out of order, one timestamp twice, and the text order of two
\* timestamps against their integer order
C2_Witness ==
    /\ C2_Done
    /\ Len(DecodedTimestamps) = 3
    /\ DecodedTimestamps[1] = DecodedTimestamps[3]
    /\ IntLess(ParseInt(DecodedTimestamps[2]), ParseInt(DecodedTimestamps[1]))
    /\ StrLess(DecodedTimestamps[1], DecodedTimestamps[2])
    /\ result.candles = 2

(***************************************************************************)
(* C3. convert_binance_to_zigquant writes a deduplicated series: no two    *)
(* records of its output have the same timestamp. The code sorts and       *)
(* writes every line it collected, so this fails.                          *)
(***************************************************************************)
C3_BinanceNoRepeat ==
    (prog = "binance" /\ pc = "done" /\ ret = "True")
    => \A a, b \in 1..Len(FileTimestamps(output_file)) :
          a # b => FileTimestamps(output_file)[a] # FileTimestamps(output_file)[b]

(***************************************************************************)
(* Vocabulary of the claims about the downloader.                          *)
(***************************************************************************)
\* the places of the network attempts in the log of the latest call
NetPlaces == {k \in 1..Len(events) : events[k].ev = "net"}

\* the network attempts made up to place k of the log
AttemptsUpTo(k) == Cardinality({n \in NetPlaces : n <= k})

(***************************************************************************)
(* C6. A 404 is never retried: once an attempt of download_file is         *)
(* answered with 404 the call makes no further network attempt and         *)
(* returns, so a call whose first attempt is answered with 404 makes       *)
(* exactly one network attempt.                                            *)
(***************************************************************************)
C6_NotFoundNotRetried ==
    prog = "fetch" =>
       /\ \A k \in NetPlaces :
             events[k].what = "notfound" =>
                /\ k = Len(events)
                /\ pc \notin {"attempt", "except", "sleeping"}
                /\ dl_result = "False"
       /\ (events # <<>> /\ events[1].what = "notfound")
             => Cardinality(NetPlaces) = 1

\* a 404 on the first attempt, with two attempts of the budget left
C6_Witness ==
    /\ prog = "fetch" /\ pc = "returned"
    /\ events = <<NetEvent("notfound")>>
    /\ attempt + 1 < max_retries

(***************************************************************************)
(* C7. What the caller sees tells a resource that does not exist from a    *)
(* retry budget used up on transient errors: the two never give the same   *)
(* value of download_file, nor the same counter and message of             *)
(* download_timeframe. The code returns False, counts "failed" and prints  *)
(* "Not found" for both, so this fails.                                    *)
(***************************************************************************)
C7_NotFoundDistinctFromFailed ==
    prog = "fetch" =>
       \A a, b \in 1..Len(report) :
          (report[a].cause = "notfound" /\ report[b].cause = "exhausted")
          => /\ report[a].ret # report[b].ret
             /\ report[a].counted # report[b].counted
             /\ report[a].printed # report[b].printed

(***************************************************************************)
(* C8. Retry budget and termination: a call of download_file makes at most *)
(* max_retries network attempts, makes none after a successful one, and    *)
(* always returns True or False.                                           *)
(***************************************************************************)
C8_Budget ==
    prog = "fetch" =>
       /\ Cardinality(NetPlaces) <= max_retries
       /\ \A k \in NetPlaces :
             events[k].what = "ok" =>
                /\ k = Len(events)
                /\ pc \notin {"attempt", "except", "sleeping"}
                /\ dl_result = "True"
       /\ pc = "returned" => dl_result \in {"True", "False"}

C8_BudgetAndTermination ==
    /\ []C8_Budget
    /\ (pc \in {"attempt", "except", "sleeping"}) ~> (pc = "returned")

\* the last attempt of the budget succeeds
C8_Witness ==
    /\ prog = "fetch" /\ pc = "returned"
    /\ Cardinality(NetPlaces) = max_retries
    /\ dl_result = "True"

(***************************************************************************)
(* C9. Only transient errors are retried and a wait precedes every retry:  *)
(* between two consecutive network attempts of download_file there is a    *)
(* sleep of 1, 2, ... seconds, doubling with each attempt. The code goes   *)
(* from an HTTP error other than 404 straight to the next attempt, so this *)
(* fails.                                                                  *)
(***************************************************************************)
C9_BackoffBeforeEveryRetry ==
    prog = "fetch" =>
       \A k \in NetPlaces :
          k < Len(events) =>
             /\ events[k].what \in {"transient", "broken"}
             /\ events[k + 1].ev = "sleep"
             /\ events[k + 1].secs = 2 ^ (AttemptsUpTo(k) - 1)

(***************************************************************************)
(* C10. Fetch is idempotent: a month whose file exists is counted as       *)
(* skipped and its file is left as it is, and a run that follows a run     *)
(* without failure makes no network attempt and downloads nothing.         *)
(***************************************************************************)
C10_FetchIdempotent ==
    (prog = "fetch" /\ run >= 2) =>
       /\ \A f \in 1..MaxFiles : prev.disk[f].state # "absent" => disk[f] = prev.disk[f]
       /\ skipped = Cardinality({f \in 1..idx : prev.disk[f].state # "absent"})
       /\ prev.failed = 0 => net_count = 0 /\ downloaded = 0 /\ failed = 0

\* the second run after a first run that downloaded every month
C10_Witness ==
    /\ prog = "fetch" /\ run = 2 /\ pc = "tf_done"
    /\ prev.downloaded = MaxFiles
    /\ skipped = MaxFiles
    /\ net_count = 0

(***************************************************************************)
(* C11. A fetch that uses up its retry budget on transient errors, an      *)
(* error in the middle of the body included, returns failure, and once     *)
(* download_timeframe has handled that return no file is at the month's    *)
(* local path: download_file returns False and the caller removes what the *)
(* call left behind.                                                       *)
(***************************************************************************)
C11_ExhaustedLeavesNoFile ==
    prog = "fetch" =>
       /\ (pc = "returned" /\ Cause = "exhausted") => dl_result = "False"
       /\ \A a \in 1..Len(report) :
             report[a].cause = "exhausted"
             => /\ report[a].ret = "False"
                /\ report[a].counted = "failed"
                /\ ~Exists(disk[report[a].month])

\* the last attempt of the budget broke while the body was written
C11_Witness ==
    /\ prog = "fetch" /\ pc = "tf_loop"
    /\ report # <<>>
    /\ report[Len(report)].cause = "exhausted"
    /\ report[Len(report)].month = idx
    /\ Cardinality(NetPlaces) = max_retries
    /\ events[Len(events)].what = "broken"
    /\ disk[idx].state = "absent"

(***************************************************************************)
(* C12. Cancellation leaves no partial file: when the downloader is        *)
(* interrupted no month's file is partial, and so every file that the      *)
(* exists-check of a later run skips is a complete download. The code      *)
(* leaves the file of an interrupted download where it is, and the next    *)
(* run skips it, so this fails.                                            *)
(***************************************************************************)
C12_CancelLeavesNoPartial ==
    prog = "fetch" =>
       /\ pc = "killed" => \A f \in 1..MaxFiles : disk[f].state # "partial"
       /\ (pc = "tf_loop" /\ idx < MaxFiles /\ Exists(disk[idx + 1]))
             => disk[idx + 1].state = "complete"

(***************************************************************************)
(* C13. An archive must hold exactly one data file: an archive with no     *)
(* entry named *.csv, or with more than one, contributes no record, and    *)
(* the next archive is processed. Checked on convert_binance_to_zigquant:  *)
(* the lines collected are those of the archives with exactly one entry.   *)
(* The code reads the first of several entries, so this fails.             *)
(***************************************************************************)
C13_ExactlyOneDataFile ==
    prog = "binance" =>
       Len(all_lines)
         = Len(SelectSeq(AllLines(SelectSeq(DecodedArchives,
                                            LAMBDA a : a.entries = 1)),
                         IsCandle))

(***************************************************************************)
(* C14. Partial failure is isolated, in convert_timeframe and in the       *)
(* streaming converter: with corrupt archives among the input the run      *)
(* visits every archive and ends, the output holds the timestamp of every  *)
(* record of every archive that decoded, and one error is reported for     *)
(* each corrupt archive and for no other (convert_timeframe also returns   *)
(* the number of archives it converted). The records are those of the data *)
(* model, with an integer timestamp: a run of convert_timeframe that ends  *)
(* in an exception has met a timestamp that is no integer (C22).           *)
(***************************************************************************)
CorruptPlaces == {a \in 1..Len(zip_files) : zip_files[a].corrupt}

IntegerTimestamps ==
    \A k \in 1..Len(DecodedTimestamps) : IsDecimal(DecodedTimestamps[k])

C14_PartialFailureIsolation ==
    prog \in {"stream", "bulk"} =>
       /\ pc = "raised" => ~IntegerTimestamps
       /\ Len(errors) = Cardinality(CorruptPlaces)
       /\ Range(errors) = CorruptPlaces
       /\ (prog = "stream" /\ pc = "converted")
             => /\ Len(zip_files) = total_files
                /\ LET in == DecodedTimestamps
                       out == FileTimestamps(outfile)
                   IN  Range(in) \subseteq Range(out)
       /\ (prog = "bulk" /\ pc = "done" /\ total_files > 0)
             => /\ Len(zip_files) = total_files
                /\ IF result.status = "success"
                   THEN /\ LET in == DecodedTimestamps
                               out == FileTimestamps(output_file)
                           IN  Range(in) \subseteq Range(out)
                        /\ result.files_processed
                             = Cardinality({a \in 1..Len(zip_files) :
                                              /\ a \notin CorruptPlaces
                                              /\ zip_files[a].entries >= 1})
                   ELSE DecodedTimestamps = <<>>

\* a corrupt archive with readable lines, then an archive whose record is
\* written
C14_Witness ==
    /\ \/ prog = "stream" /\ pc = "converted"
       \/ prog = "bulk" /\ pc = "done" /\ result.status = "success"
    /\ Len(zip_files) = 2
    /\ zip_files[1].corrupt /\ zip_files[1].rows # <<>>
    /\ ~zip_files[2].corrupt
    /\ DecodedTimestamps # <<>>
    /\ errors = <<1>>

(***************************************************************************)
(* C15. A row with fewer than 6 fields is rejected: it is never written,   *)
(* a count of rejected rows goes up by it, and the next row is processed.  *)
(* Stated on the streaming converter as a step property: the step that     *)
(* reads such a row leaves the output as it is and changes one of the      *)
(* counts the script keeps. No converter keeps a count that a rejected row *)
(* changes, so this fails.                                                 *)
(***************************************************************************)
StreamCounts == <<total_candles, duplicates_skipped, file_candles, file_duplicates>>

\* the step reads a row that carries no record
ShortRowRead ==
    /\ prog = "stream" /\ pc = "lines" /\ pc' = "lines"
    /\ Len(zip_files'[i + 1].rows) = Len(zip_files[i + 1].rows) + 1
    /\ ~IsCandle(zip_files'[i + 1].rows[Len(zip_files'[i + 1].rows)])

C15_RejectedRowCounted ==
    [][ShortRowRead => (outfile' = outfile /\ StreamCounts' # StreamCounts)]_vars

(***************************************************************************)
(* C16. Reconciliation is idempotent: a run of the fixer cuts a timestamp  *)
(* of exactly 16 characters to its first 13 and leaves a timestamp of any  *)
(* other width, the other fields and the lines without a record as they    *)
(* are, and a second run on the file the first one produced changes        *)
(* nothing.                                                                *)
(***************************************************************************)
FixStep == prog = "fix" /\ pc = "input" /\ pc' = "fixed"

C16_ReconcileIdempotent ==
    [][FixStep =>
         /\ Len(outfile') = Len(outfile)
         /\ outfile'[1] = outfile[1]
         /\ \A k \in 2..Len(outfile) :
               IF IsCandle(outfile[k])
               THEN LET t == TsOf(outfile[k])
                    IN  /\ TsOf(outfile'[k])
                             = IF Len(t) = 16 THEN SubSeq(t, 1, 13) ELSE t
                        /\ Tail(Split(outfile'[k], ","))
                             = Tail(Split(Strip(outfile[k]), ","))
               ELSE outfile'[k] = outfile[k]
         /\ run >= 2 => outfile' = outfile]_vars

\* the second run has ended on a file that holds a 13 character timestamp
\* which only the cut of the first run can have produced, next to a 19
\* character one
C16_Witness ==
    /\ prog = "fix" /\ pc = "fixed" /\ run = 2
    /\ fixed_lines = 0
    /\ \E k \in 2..Len(outfile) : TsOf(outfile[k]) = Wide(13)
    /\ \E k \in 2..Len(outfile) : TsOf(outfile[k]) = T19

(***************************************************************************)
(* C17. Reconciliation is applied in every pipeline: no record of a final  *)
(* series written by convert_timeframe, by convert_binance_to_zigquant or  *)
(* by the streaming 1s pipeline carries a 16-digit timestamp. The two bulk *)
(* converters write the timestamp text as they read it, so this fails.     *)
(***************************************************************************)
NoMicroTimestamp(file) ==
    \A k \in 1..Len(FileTimestamps(file)) : Len(FileTimestamps(file)[k]) # 16

C17_NoSixteenDigitWritten ==
    /\ (prog = "binance" /\ pc = "done" /\ ret = "True")
          => NoMicroTimestamp(output_file)
    /\ (prog = "bulk" /\ pc = "done" /\ result.status = "success")
          => NoMicroTimestamp(output_file)
    /\ (prog = "stream" /\ pc = "fixed") => NoMicroTimestamp(outfile)

(***************************************************************************)
(* C18. The counts the streaming converter reports are faithful, also when *)
(* an archive raises part-way: at the end of the run total_candles is the  *)
(* number of records written and duplicates_skipped the number of rows     *)
(* dropped as duplicates. The counts of an archive join the totals only    *)
(* when the archive was read to its end, so this fails.                    *)
(***************************************************************************)
C18_CountsFaithful ==
    (prog = "stream" /\ pc = "converted")
    => /\ total_candles = Len(outfile) - 1
       /\ duplicates_skipped = Len(InputTimestamps) - (Len(outfile) - 1)

(***************************************************************************)
(* C19. An archive that is skipped for an error is skipped as a whole, in  *)
(* both modes: the output holds what the run without that archive writes,  *)
(* and the streaming converter's last written timestamp is what it would   *)
(* be had the archive not been visited. The streaming converter writes the *)
(* rows it read before the error and remembers the last of them, so this   *)
(* fails.                                                                  *)
(***************************************************************************)
C19_SkippedArchiveAtomic ==
    /\ (prog = "stream" /\ pc = "converted")
          => /\ FileTimestamps(outfile) = RunHeads(DecodedTimestamps)
             /\ last_timestamp
                  = IF DecodedTimestamps = <<>> THEN <<>>
                    ELSE <<DecodedTimestamps[Len(DecodedTimestamps)]>>
    /\ (prog = "bulk" /\ pc = "done" /\ result.status = "success")
          => Range(FileTimestamps(output_file)) = Range(DecodedTimestamps)

(***************************************************************************)
(* C20. The first occurrence wins in both modes. convert_timeframe writes, *)
(* for every timestamp, the first record with it in visiting order (the    *)
(* sort keeps records of equal timestamp in that order); the streaming     *)
(* converter writes the first record of every run of consecutive records   *)
(* with the same timestamp.                                                *)
(***************************************************************************)
\* the record a converter writes for a line: its first 6 fields
RecordOf(line) == Join(SubSeq(Split(Strip(line), ","), 1, 6), ",")
Records(lines) == [k \in 1..Len(lines) |-> RecordOf(lines[k])]

\* of every run of consecutive lines with one timestamp, the first
RECURSIVE HeadsByTimestamp(_)
HeadsByTimestamp(q) ==
    IF Len(q) <= 1 THEN q
    ELSE LET front == HeadsByTimestamp(SubSeq(q, 1, Len(q) - 1))
         IN  IF TsOf(q[Len(q)]) = TsOf(q[Len(q) - 1]) THEN front
             ELSE Append(front, q[Len(q)])

\* the lines with a record: all that were read, and those of the archives that
\* decoded
ReadCandles == SelectSeq(AllLines(zip_files), IsCandle)
DecodedCandles == SelectSeq(AllLines(DecodedArchives), IsCandle)

C20_FirstOccurrenceWins ==
    /\ (prog = "stream" /\ pc = "converted")
          => Tail(outfile) = Records(HeadsByTimestamp(ReadCandles))
    /\ (prog = "bulk" /\ pc = "done" /\ result.status = "success")
          => LET met == DecodedCandles
                 ts == Timestamps(met)
             IN  \A k \in 2..Len(output_file) :
                    LET t == TsOf(output_file[k])
                        same == {n \in 1..Len(met) : ts[n] = t}
                        first == CHOOSE n \in same : \A m \in same : n <= m
                    IN  /\ same # {}
                        /\ output_file[k] = RecordOf(met[first])

\* convert_timeframe met two different records of one timestamp after a
\* later one, and wrote the first of the two
C20_Witness ==
    /\ prog = "bulk" /\ pc = "done" /\ result.status = "success"
    /\ Len(DecodedCandles) = 3
    /\ TsLess(TsOf(DecodedCandles[2]), TsOf(DecodedCandles[1]))
    /\ TsOf(DecodedCandles[2]) = TsOf(DecodedCandles[3])
    /\ RecordOf(DecodedCandles[2]) # RecordOf(DecodedCandles[3])
    /\ output_file[2] = RecordOf(DecodedCandles[2])

(***************************************************************************)
(* C21. Streaming mode refines bulk mode: on archives that decode without  *)
(* error and whose rows, one archive after the other, are in               *)
(* non-decreasing timestamp order, the records the streaming converter     *)
(* writes are, one by one and in the same order, the records               *)
(* convert_timeframe writes for the same archives. An order of timestamps  *)
(* is an order of integers: every timestamp is a text int() takes.         *)
(* BulkSeries is convert_timeframe as a function of the archives; the      *)
(* second and third part tie it to the run of convert_timeframe itself,    *)
(* which writes nothing when the sort raises.                              *)
(***************************************************************************)
\* lines 78-105 of convert_all_data.py: the rows collected from a list of
\* archives
RECURSIVE BulkCollected(_)
BulkCollected(z) ==
    IF z = <<>> THEN <<>>
    ELSE (IF Head(z).corrupt THEN <<>>
          ELSE BulkRows(BulkContentLines(Head(z).rows)))
         \o BulkCollected(Tail(z))

\* line 115: the sort raises on the rows collected from the archives
BulkRaises(z) == SortRaises(BulkCollected(z))

\* lines 78-130: the records written for a list of archives, none when no row
\* was collected or the sort raised
BulkSeries(z) ==
    LET rows == BulkCollected(z)
    IN  IF SortRaises(rows) THEN <<>>
        ELSE CsvLines(UniqueRows(SortRows(rows)))

C21_Pre ==
    /\ prog = "stream" /\ pc = "converted"
    /\ NoCorruptArchive
    /\ LET ts == InputTimestamps
       IN  /\ IntNonDecreasing(ts)
           /\ \A k \in 1..Len(ts) : IsDecimal(ts[k])

C21_StreamRefinesBulk ==
    /\ C21_Pre => Tail(outfile) = BulkSeries(zip_files)
    /\ (prog = "bulk" /\ pc = "done" /\ total_files > 0)
          => IF result.status = "success"
             THEN output_file # <<>> /\ Tail(output_file) = BulkSeries(zip_files)
             ELSE /\ ~BulkRaises(zip_files)
                  /\ BulkSeries(zip_files) = <<>> /\ output_file = <<>>
    /\ (prog = "bulk" /\ pc = "raised")
          => all_rows # <<>> /\ BulkSeries(zip_files) = <<>> /\ output_file = <<>>

\* two archives in order: a timestamp with two different records, met again
\* in the next archive, then a later timestamp
C21_Witness ==
    /\ C21_Pre
    /\ Len(zip_files) = 2
    /\ zip_files[1].rows # <<>> /\ zip_files[2].rows # <<>>
    /\ Len(ReadCandles) = 3
    /\ TsOf(ReadCandles[1]) = TsOf(ReadCandles[2])
    /\ RecordOf(ReadCandles[1]) # RecordOf(ReadCandles[2])
    /\ TsOf(ReadCandles[2]) # TsOf(ReadCandles[3])
    /\ Len(outfile) = 3

(***************************************************************************)
(* C22. A bulk conversion always ends with a status of its own: whatever   *)
(* the archives hold, a row of 6 fields whose timestamp is no integer      *)
(* included, convert_timeframe returns a record with status success or     *)
(* error and convert_binance_to_zigquant returns True or False. int()      *)
(* raises ValueError on such a timestamp in the sort key, outside every    *)
(* try, so this fails.                                                     *)
(***************************************************************************)
C22_UnitEndsWithStatus ==
    /\ (prog = "bulk" /\ pc \in {"done", "raised"})
          => result.status \in {"success", "error"}
    /\ (prog = "binance" /\ pc \in {"done", "raised"})
          => ret \in {"True", "False"}

====
